---- MODULE Spec2Model ----
(***************************************************************************)
(* Model of src/main.py: process_video and the bundle encoder              *)
(* create_bundle (header, bit-packed frame blocks, audio chunks).          *)
(* The program is run as a script (main -> process_video), which is the    *)
(* only way struct and PIL.Image are bound (lines 296-299).                *)
(***************************************************************************)
EXTENDS Integers, Sequences, FiniteSets, TLC

\* ---------------------------------------------------------------- bounds
MaxFrames == 2        \* frames ffmpeg extracts from the video
MaxAudio == 3         \* bytes in the extracted audio file
MaxPackWidth == 5     \* frame sizes of the packer-only specification
MaxPackHeight == 2
SrcWidth == 2         \* width of the source video (used by scale when width = 0)

\* ---------------------------------------------------------------- inputs
Widths == {0, 3, 4, 256}
Heights == {1, 2, 256}
FpsValues == {0, 1, 24}
SampleRates == {2, 44100, 70000}

\* a file that does not exist (no byte is negative)
NoFile == <<-1>>
\* return values: not returned yet, True, False
None == "none"
RetTrue == "True"
RetFalse == "False"

Dark == 0
Light == 255

\* A BMP frame file after Image.open(...).convert('1'): npix pixels, the
\* intensities repeat the tile (a tile as long as npix is an arbitrary buffer).
Tiles == {<<Dark>>, <<Light>>, <<Dark, Light>>}

Image(n, t) == [npix |-> n, tile |-> t]

\* list(img.getdata()): flat row-major list of 0 / 255 values
GetData(img) ==
    [p \in 1..img.npix |-> img.tile[((p - 1) % Len(img.tile)) + 1]]

SeqsUpTo(S, n) == UNION {[1..m -> S] : m \in 0..n}

\* ffmpeg's scale filter: 0 keeps the input dimension
ScaleDim(arg, src) == IF arg = 0 THEN src ELSE arg

\* the frame sequences ffmpeg can write for the requested size
ExtractedFrames(w, h) ==
    LET n == ScaleDim(w, SrcWidth) * h        \* no height of Heights is 0
    IN  SeqsUpTo({Image(n, t) : t \in Tiles}, MaxFrames)

Ramp(n) == [p \in 1..n |-> (16 * p) % 256]
Silence(n) == [p \in 1..n |-> 128]
AudioFiles == {Ramp(n) : n \in 0..MaxAudio} \cup {Silence(n) : n \in 0..MaxAudio}

\* ------------------------------------------------------- pure operators
Min(a, b) == IF a < b THEN a ELSE b

Pow2(k) == 2 ^ k

\* seq[a:b] of Python for 0 <= a
Slice(s, a, b) == SubSeq(s, a + 1, Min(b, Len(s)))

\* struct.pack range check for an unsigned field of nbytes bytes
StructFits_NoCheck(v, nbytes) == TRUE

RECURSIVE ShiftRightBytes(_, _)
ShiftRightBytes(v, nbytes) ==
    IF nbytes = 0 THEN v ELSE ShiftRightBytes(v \div 256, nbytes - 1)

StructFits(v, nbytes) == v >= 0 /\ ShiftRightBytes(v, nbytes) = 0

RECURSIVE StructPackLE_BigEndian(_, _)
StructPackLE_BigEndian(v, nbytes) ==
    IF nbytes = 0 THEN <<>>
    ELSE StructPackLE_BigEndian(v \div 256, nbytes - 1) \o <<v % 256>>

\* struct.pack('<B' / '<H' / '<I', v): little-endian bytes
RECURSIVE StructPackLE(_, _)
StructPackLE(v, nbytes) ==
    IF nbytes = 0 THEN <<>>
    ELSE <<v % 256>> \o StructPackLE(v \div 256, nbytes - 1)

ChunkSize_Rounded(sr, f) == (2 * sr + f) \div (2 * f)

\* audio_chunk_size = sample_rate // fps (fps # 0)
ChunkSize(sr, f) == sr \div f

RECURSIVE PackBits_MsbFirst(_, _, _)
PackBits_MsbFirst(pixels, j, k) ==
    IF k = 8 THEN 0
    ELSE (IF j + k < Len(pixels) /\ pixels[j + k + 1] = 0 THEN Pow2(7 - k) ELSE 0)
         + PackBits_MsbFirst(pixels, j, k + 1)

\* inner loop over k in range(8): byte |= 1 << k for dark pixels that exist
RECURSIVE PackBits(_, _, _)
PackBits(pixels, j, k) ==
    IF k = 8 THEN 0
    ELSE (IF j + k < Len(pixels) /\ pixels[j + k + 1] = 0 THEN Pow2(k) ELSE 0)
         + PackBits(pixels, j, k + 1)

RangeLen8_WholeGroups(n) == IF n <= 0 THEN 0 ELSE n \div 8

\* len(range(0, n, 8))
RangeLen8(n) == IF n <= 0 THEN 0 ELSE (n + 7) \div 8

\* byte_data built by the loop over j in range(0, height * width, 8)
PackFrame(pixels, w, h) ==
    [g \in 1..RangeLen8(h * w) |-> PackBits(pixels, 8 * (g - 1), 0)]

ChunkEnd_NoCursor(pos, size, n) == IF size > n THEN n ELSE size

ChunkEnd_NoClamp(pos, size, n) == pos + size

\* chunk_end = audio_pos + audio_chunk_size, clamped to len(audio_data)
ChunkEnd(pos, size, n) == IF pos + size > n THEN n ELSE pos + size

StageGate_Unchecked(ok, nextpc) == nextpc

\* "if not stage(...): return False" of process_video
StageGate(ok, nextpc) == IF ok THEN nextpc ELSE "pv_return_false"

Signature == <<66, 78, 68, 33, 86, 73, 68>>   \* b'BND!VID'
Version == 1

\* ----------------------------------------------------------------- state
VARIABLES
    pc,                \* position in process_video / create_bundle
    width, height, fps, sample_rate,   \* arguments
    frames_dir,        \* frame*.bmp files in temp_dir/frames, sorted by name
    audio_file,        \* temp_dir/audio.wav content, or NoFile
    bundle,            \* output file content, or NoFile
    audio_chunk_size, audio_data, audio_pos,
    frame_files, num_frames, i, byte_data,
    cb_result, pv_result,
    log,               \* history: the write calls made on the bundle
    stages             \* history: the stages run and what each returned

vars == <<pc, width, height, fps, sample_rate, frames_dir, audio_file, bundle,
          audio_chunk_size, audio_data, audio_pos, frame_files, num_frames, i,
          byte_data, cb_result, pv_result, log, stages>>

args == <<width, height, fps, sample_rate>>
files == <<frames_dir, audio_file, bundle>>
locals == <<audio_chunk_size, audio_data, audio_pos, frame_files, num_frames, i, byte_data>>

Locals0 ==
    /\ audio_chunk_size = 0
    /\ audio_data = <<>>
    /\ audio_pos = 0
    /\ frame_files = <<>>
    /\ num_frames = 0
    /\ i = 0
    /\ byte_data = <<>>

\* process_video is called with the parsed arguments; temp_dir may hold the
\* files an earlier failed run left behind
Init ==
    /\ pc = "pv_extract_frames"
    /\ width \in Widths
    /\ height \in Heights
    /\ fps \in FpsValues
    /\ sample_rate \in SampleRates
    /\ frames_dir \in {<<>>, <<Image(1, <<Dark>>)>>}
    /\ audio_file \in {NoFile, Silence(1)}
    /\ bundle = NoFile
    /\ Locals0
    /\ cb_result = None
    /\ pv_result = None
    /\ log = <<>>
    /\ stages = <<>>

\* ------------------------------------------------------- process_video
\* extract_frames: clears frame*.bmp, runs ffmpeg; ffmpeg.Error -> False
ExtractFrames ==
    /\ pc = "pv_extract_frames"
    /\ \E ok \in BOOLEAN :
         /\ IF ok
            THEN frames_dir' \in ExtractedFrames(width, height)
            ELSE frames_dir' \in {fs \in ExtractedFrames(width, height) : Len(fs) <= 1}
         /\ stages' = Append(stages, <<"extract_frames", ok>>)
         /\ pc' = StageGate(ok, "pv_extract_audio")
    /\ UNCHANGED <<args, audio_file, bundle, locals, cb_result, pv_result, log>>

\* extract_audio: ffmpeg writes audio.wav; ffmpeg.Error -> False
ExtractAudio ==
    /\ pc = "pv_extract_audio"
    /\ \E ok \in BOOLEAN :
         /\ IF ok
            THEN audio_file' \in AudioFiles
            ELSE audio_file' \in {audio_file, <<>>}
         /\ stages' = Append(stages, <<"extract_audio", ok>>)
         /\ pc' = StageGate(ok, "cb_begin")
    /\ UNCHANGED <<args, frames_dir, bundle, locals, cb_result, pv_result, log>>

\* the early "return False" of process_video
ReturnFalse ==
    /\ pc = "pv_return_false"
    /\ pv_result' = RetFalse
    /\ pc' = "done"
    /\ UNCHANGED <<args, files, locals, cb_result, log, stages>>

\* ------------------------------------------------------- create_bundle
\* lines 98-111: chunk size, read the audio file, open the output for writing
Begin ==
    /\ pc = "cb_begin"
    /\ IF fps = 0
       THEN /\ pc' = "cb_except"                   \* ZeroDivisionError
            /\ UNCHANGED <<audio_chunk_size, audio_data, audio_pos, bundle>>
       ELSE /\ audio_chunk_size' = ChunkSize(sample_rate, fps)
            /\ audio_data' = audio_file
            /\ audio_pos' = 0
            /\ bundle' = <<>>
            /\ pc' = "cb_signature"
    /\ UNCHANGED <<args, frames_dir, audio_file, frame_files, num_frames, i,
                   byte_data, cb_result, pv_result, log, stages>>

\* bundle.write(data), recorded under the name of what is written
Write(field, data) ==
    /\ bundle' = bundle \o data
    /\ log' = Append(log, [field |-> field, data |-> data])

\* bundle.write(struct.pack(fmt, v)): struct.error leaves the file as it is
WritePacked(field, v, nbytes, nextpc) ==
    IF StructFits(v, nbytes)
    THEN /\ Write(field, StructPackLE(v, nbytes))
         /\ pc' = nextpc
    ELSE /\ pc' = "cb_except"
         /\ UNCHANGED <<bundle, log>>

WriteSignature ==
    /\ pc = "cb_signature"
    /\ Write("signature", Signature)
    /\ pc' = "cb_version"
    /\ UNCHANGED <<args, frames_dir, audio_file, locals, cb_result, pv_result, stages>>

WriteVersion ==
    /\ pc = "cb_version"
    /\ WritePacked("version", Version, 1, "cb_frame_count")
    /\ UNCHANGED <<args, frames_dir, audio_file, locals, cb_result, pv_result, stages>>

\* lines 117-119
WriteFrameCount ==
    /\ pc = "cb_frame_count"
    /\ frame_files' = frames_dir
    /\ num_frames' = Len(frames_dir)
    /\ WritePacked("frame_count", Len(frames_dir), 4, "cb_chunk_size")
    /\ UNCHANGED <<args, frames_dir, audio_file, audio_chunk_size, audio_data,
                   audio_pos, i, byte_data, cb_result, pv_result, stages>>

WriteChunkSize ==
    /\ pc = "cb_chunk_size"
    /\ WritePacked("audio_chunk_size", audio_chunk_size, 2, "cb_sample_rate")
    /\ UNCHANGED <<args, frames_dir, audio_file, locals, cb_result, pv_result, stages>>

WriteSampleRate ==
    /\ pc = "cb_sample_rate"
    /\ WritePacked("sample_rate", sample_rate, 2, "cb_height")
    /\ UNCHANGED <<args, frames_dir, audio_file, locals, cb_result, pv_result, stages>>

WriteHeight ==
    /\ pc = "cb_height"
    /\ WritePacked("height", height, 1, "cb_width")
    /\ UNCHANGED <<args, frames_dir, audio_file, locals, cb_result, pv_result, stages>>

WriteWidth ==
    /\ pc = "cb_width"
    /\ WritePacked("width", width, 1, "cb_loop")
    /\ UNCHANGED <<args, frames_dir, audio_file, locals, cb_result, pv_result, stages>>

\* line 132: next frame file, or leave the loop and the with block
LoopHead ==
    /\ pc = "cb_loop"
    /\ pc' = IF i < Len(frame_files) THEN "cb_frame" ELSE "cb_return"
    /\ UNCHANGED <<args, files, locals, cb_result, pv_result, log, stages>>

\* lines 135-149: load the image, pack it, write the frame block
WriteFrame ==
    /\ pc = "cb_frame"
    /\ byte_data' = PackFrame(GetData(frame_files[i + 1]), width, height)
    /\ Write("frame", byte_data')
    /\ pc' = "cb_audio"
    /\ UNCHANGED <<args, frames_dir, audio_file, audio_chunk_size, audio_data,
                   audio_pos, frame_files, num_frames, i, cb_result, pv_result, stages>>

\* lines 151-156: write the audio chunk of this frame, advance the cursor
WriteAudioChunk ==
    /\ pc = "cb_audio"
    /\ LET chunk_end == ChunkEnd(audio_pos, audio_chunk_size, Len(audio_data))
       IN  /\ Write("audio", Slice(audio_data, audio_pos, chunk_end))
           /\ audio_pos' = chunk_end
    /\ i' = i + 1
    /\ pc' = "cb_loop"
    /\ UNCHANGED <<args, frames_dir, audio_file, audio_chunk_size, audio_data,
                   frame_files, num_frames, byte_data, cb_result, pv_result, stages>>

\* line 158
ReturnTrue ==
    /\ pc = "cb_return"
    /\ cb_result' = RetTrue
    /\ pc' = "pv_after_bundle"
    /\ UNCHANGED <<args, files, locals, pv_result, log, stages>>

\* lines 159-161
Except ==
    /\ pc = "cb_except"
    /\ cb_result' = RetFalse
    /\ pc' = "pv_after_bundle"
    /\ UNCHANGED <<args, files, locals, pv_result, log, stages>>

\* lines 214-215
AfterBundle ==
    /\ pc = "pv_after_bundle"
    /\ stages' = Append(stages, <<"create_bundle", cb_result = RetTrue>>)
    /\ pc' = StageGate(cb_result = RetTrue, "pv_cleanup")
    /\ UNCHANGED <<args, files, locals, cb_result, pv_result, log>>

\* lines 217-223
Cleanup ==
    /\ pc = "pv_cleanup"
    /\ frames_dir' = <<>>
    /\ audio_file' = NoFile
    /\ pv_result' = RetTrue
    /\ pc' = "done"
    /\ UNCHANGED <<args, bundle, locals, cb_result, log, stages>>

Next ==
    \/ ExtractFrames
    \/ ExtractAudio
    \/ ReturnFalse
    \/ Begin
    \/ WriteSignature
    \/ WriteVersion
    \/ WriteFrameCount
    \/ WriteChunkSize
    \/ WriteSampleRate
    \/ WriteHeight
    \/ WriteWidth
    \/ LoopHead
    \/ WriteFrame
    \/ WriteAudioChunk
    \/ ReturnTrue
    \/ Except
    \/ AfterBundle
    \/ Cleanup

Spec == Init /\ [][Next]_vars

\* ------------------------------------------- the frame packer on its own
\* every 2-level pixel buffer of exactly width*height pixels
InitPack ==
    /\ pc = "pack_input"
    /\ width \in 1..MaxPackWidth
    /\ height \in 1..MaxPackHeight
    /\ fps = 1
    /\ sample_rate = 1
    /\ frames_dir = <<>>
    /\ audio_file = NoFile
    /\ bundle = NoFile
    /\ audio_chunk_size = 0
    /\ audio_data = <<>>
    /\ audio_pos = 0
    /\ \E t \in [1..(width * height) -> {Dark, Light}] :
          frame_files = <<Image(width * height, t)>>
    /\ num_frames = 1
    /\ i = 0
    /\ byte_data = <<>>
    /\ cb_result = None
    /\ pv_result = None
    /\ log = <<>>
    /\ stages = <<>>

\* lines 136-146 applied to the frame
PackOnly ==
    /\ pc = "pack_input"
    /\ byte_data' = PackFrame(GetData(frame_files[i + 1]), width, height)
    /\ pc' = "pack_output"
    /\ UNCHANGED <<args, files, audio_chunk_size, audio_data, audio_pos,
                   frame_files, num_frames, i, cb_result, pv_result, log, stages>>

NextPack == PackOnly

SpecPack == InitPack /\ [][NextPack]_vars
\* ================================================================ claims
\* what the properties are stated in
Succeeded == cb_result = RetTrue
Failed == pc = "cb_except" \/ cb_result = RetFalse

HeaderFields == <<"signature", "version", "frame_count", "audio_chunk_size",
                  "sample_rate", "height", "width">>

FieldsOf(l) == [k \in 1..Len(l) |-> l[k].field]
IsFrame(e) == e.field = "frame"
IsAudio(e) == e.field = "audio"
FrameBlocks == SelectSeq(log, IsFrame)
Chunks == SelectSeq(log, IsAudio)

RECURSIVE ConcatData(_)
ConcatData(l) == IF l = <<>> THEN <<>> ELSE Head(l).data \o ConcatData(Tail(l))

RECURSIVE TotalLen(_)
TotalLen(l) == IF l = <<>> THEN 0 ELSE Len(Head(l).data) + TotalLen(Tail(l))

\* ceil(n / 8), stated without the division the code uses
Ceil8(n) == CHOOSE c \in 0..n : 8 * c >= n /\ (c = 0 \/ 8 * (c - 1) < n)

\* value of a little-endian byte string
RECURSIVE LEValue(_)
LEValue(b) == IF b = <<>> THEN 0 ELSE Head(b) + 256 * LEValue(Tail(b))

BitOf(b, k) == (b \div Pow2(k)) % 2

\* audio position at which chunk k (1-based) starts
ChunkStart(k) == TotalLen(SubSeq(Chunks, 1, k - 1))

\* C1 as stated: a successful create_bundle over n frames leaves an output
\* of exactly 17 + n * ceil(width*height/8) + (audio bytes written) bytes;
\* with no frame the output is 17 bytes.
C1_OutputLength17 ==
    Succeeded =>
        /\ Len(bundle) = 17 + Len(frame_files) * Ceil8(width * height)
                         + TotalLen(Chunks)
        /\ Len(frame_files) = 0 => Len(bundle) = 17

\* C1 amended: the output of a successful create_bundle over n frames has
\* exactly 18 + n * ceil(width*height/8) + (audio bytes written) bytes; with
\* no frame it is the 18-byte header alone.
C1_OutputLength ==
    Succeeded =>
        /\ Len(bundle) = 18 + Len(frame_files) * Ceil8(width * height)
                         + TotalLen(Chunks)
        /\ Len(frame_files) = 0 => Len(bundle) = 18

C1_Witness ==
    /\ Succeeded
    /\ Len(frame_files) = 2
    /\ (width * height) % 8 # 0
    /\ TotalLen(Chunks) > 0

\* C2 as stated: the chunk size computed, written in the header and used for
\* slicing is round(sample_rate / fps), half-up or half-to-even.
RoundHalfUp(sr, f) == (2 * sr + f) \div (2 * f)
RoundHalfEven(sr, f) ==
    IF (2 * sr) % (2 * f) = f /\ (sr \div f) % 2 = 0 THEN sr \div f
    ELSE RoundHalfUp(sr, f)

ChunkSizeComputed == fps > 0 /\ bundle # NoFile

C2_ChunkSizeIsRounded ==
    ChunkSizeComputed =>
        \/ audio_chunk_size = RoundHalfUp(sample_rate, fps)
        \/ audio_chunk_size = RoundHalfEven(sample_rate, fps)

\* C2 amended: the chunk size is floor(sample_rate / fps): it is the largest q
\* with q * fps <= sample_rate; the header field, once written, holds it, and
\* each audio chunk is cut with it (44100 and 24 give 1837).
C2_ChunkSizeIsFloor ==
    ChunkSizeComputed =>
        /\ audio_chunk_size * fps <= sample_rate
        /\ sample_rate < (audio_chunk_size + 1) * fps
        /\ (sample_rate = 44100 /\ fps = 24) => audio_chunk_size = 1837
        /\ \A k \in 1..Len(log) :
              log[k].field = "audio_chunk_size" =>
                  LEValue(log[k].data) * fps <= sample_rate
                  /\ sample_rate < (LEValue(log[k].data) + 1) * fps
        /\ \A k \in 1..Len(Chunks) :
              Len(Chunks[k].data) =
                  Min(sample_rate \div fps, Len(audio_data) - ChunkStart(k))

C2_Witness ==
    /\ Succeeded
    /\ sample_rate = 44100
    /\ fps = 24
    /\ audio_chunk_size = 1837
    /\ Len(Chunks) > 0

\* C3: after a successful run over n frames the chunks written, concatenated
\* in frame order, are the first min(len(audio), n * C) bytes of the audio
\* file, and the buffer read is still the content of that file.
C3_AudioCoverage ==
    Succeeded =>
        /\ ConcatData(Chunks) =
              SubSeq(audio_data, 1,
                     Min(Len(audio_data), Len(frame_files) * audio_chunk_size))
        /\ pc = "pv_after_bundle" => audio_data = audio_file

C3_Witness ==
    /\ Succeeded
    /\ pc = "pv_after_bundle"
    /\ Len(frame_files) = 2
    /\ audio_chunk_size = 2
    /\ Len(audio_data) = 3
    /\ Len(Chunks[2].data) = 1

\* C4 as stated: when the chunk size does not fit 16 bits create_bundle fails
\* and at the failure nothing has been written to the output.
C4_NothingWrittenOnOverflow ==
    (ChunkSizeComputed /\ audio_chunk_size > 65535) =>
        /\ ~Succeeded
        /\ Failed => Len(bundle) = 0

\* C5 as stated: a frame whose pixel buffer is not width*height long makes
\* create_bundle fail, and no frame block is produced from it.
C5_MismatchRejected ==
    \A k \in 1..Len(frame_files) :
        frame_files[k].npix # width * height =>
            /\ ~Succeeded
            /\ Len(FrameBlocks) < k

\* C6: a packed frame has ceil(width*height/8) bytes; bit k of byte g is 1
\* exactly when pixel 8g+k exists and is dark, so the bits past the last pixel
\* are 0 and an all-dark frame of a multiple of 8 pixels is all 0xFF.
C6_PackedBits ==
    pc = "pack_output" =>
        LET pixels == GetData(frame_files[1])
            n == width * height
        IN  /\ Len(byte_data) = Ceil8(n)
            /\ \A g \in 0..(Len(byte_data) - 1) : \A k \in 0..7 :
                  (BitOf(byte_data[g + 1], k) = 1)
                      <=> (8 * g + k < n /\ pixels[8 * g + k + 1] = Dark)
            /\ \A g \in 1..Len(byte_data) : byte_data[g] \in 0..255
            /\ (n % 8 = 0 /\ \A p \in 1..n : pixels[p] = Dark)
                  => \A g \in 1..Len(byte_data) : byte_data[g] = 255

C6_Witness ==
    /\ pc = "pack_output"
    /\ width * height = 10
    /\ Len(byte_data) = 2
    /\ byte_data[1] \notin {0, 255}
    /\ byte_data[2] = 3

\* C7: the audio cursor never decreases and never passes len(audio); a chunk
\* cut while C bytes remain has C bytes, at most one chunk is non-empty and
\* shorter than C, chunks cut at the end of the audio are empty, and the
\* encode, once the header is out, still writes every frame and succeeds.
C7_CursorState ==
    /\ audio_pos >= 0
    /\ audio_pos <= Len(audio_data)
    /\ audio_pos = TotalLen(Chunks)
    /\ \A k \in 1..Len(Chunks) :
          /\ Len(audio_data) - ChunkStart(k) >= audio_chunk_size
                => Len(Chunks[k].data) = audio_chunk_size
          /\ ChunkStart(k) = Len(audio_data) => Chunks[k].data = <<>>
    /\ Cardinality({k \in 1..Len(Chunks) :
                      /\ Chunks[k].data # <<>>
                      /\ Len(Chunks[k].data) < audio_chunk_size}) <= 1
    /\ Failed => Len(log) < Len(HeaderFields)
    /\ Succeeded => Len(FrameBlocks) = Len(frame_files)

C7_CursorAndExhaustion ==
    /\ []C7_CursorState
    /\ [][audio_pos' >= audio_pos]_vars

C7_Witness ==
    /\ Succeeded
    /\ Len(FrameBlocks) = 2
    /\ Len(Chunks[1].data) = 1
    /\ audio_chunk_size = 2
    /\ Chunks[2].data = <<>>
    /\ audio_pos = Len(audio_data)

\* C8: with width or height above 255 create_bundle reports failure; no
\* height or width byte is written for a dimension above 255 (so none is a
\* truncated value), and no frame block is written.
C8_LargeDimensionsRejected ==
    (width > 255 \/ height > 255) =>
        /\ ~Succeeded
        /\ pc \in {"pv_after_bundle", "pv_return_false", "done"} /\ cb_result # None
              => cb_result = RetFalse
        /\ FrameBlocks = <<>>
        /\ \A k \in 1..Len(log) :
              /\ log[k].field = "height" => (height <= 255 /\ log[k].data = <<height>>)
              /\ log[k].field = "width" => (width <= 255 /\ log[k].data = <<width>>)

C8_Witness ==
    /\ width > 255
    /\ height <= 255
    /\ cb_result = RetFalse
    /\ Len(log) = 6
    /\ log[6].field = "height"

\* C9: a successful run wrote the seven header fields once, in order, then
\* for each frame its block followed by its audio chunk and nothing else; the
\* header says what was given and its frame_count is the number of blocks
\* written, which is the number of frame images.
FrameAndAudio(n) ==
    [k \in 1..(2 * n) |-> IF k % 2 = 1 THEN "frame" ELSE "audio"]

C9_WriteOrder ==
    Succeeded =>
        /\ FieldsOf(log) = HeaderFields \o FrameAndAudio(Len(frame_files))
        /\ bundle = ConcatData(log)
        /\ SubSeq(bundle, 1, 7) = Signature
        /\ bundle[8] = 1
        /\ LEValue(SubSeq(bundle, 9, 12)) = Len(FrameBlocks)
        /\ LEValue(SubSeq(bundle, 13, 14)) = audio_chunk_size
        /\ LEValue(SubSeq(bundle, 15, 16)) = sample_rate
        /\ bundle[17] = height
        /\ bundle[18] = width
        /\ TotalLen(SubSeq(log, 1, Len(HeaderFields))) = 18
        /\ LEValue(SubSeq(bundle, 9, 12)) = Len(frame_files)
        /\ pc = "pv_after_bundle" => Len(frame_files) = Len(frames_dir)

C9_Witness ==
    /\ Succeeded
    /\ Len(frame_files) = 2
    /\ Len(log) = 11
    /\ log[11].field = "audio"

\* C10: process_video runs extract_frames, extract_audio, create_bundle in
\* that order, each only after the earlier ones returned True; it returns True
\* exactly when all three did; the frame files and the audio file of the run
\* are removed only by the clean-up that follows three successes.
StageNames == <<"extract_frames", "extract_audio", "create_bundle">>
AllStagesOk == Len(stages) = 3 /\ \A k \in 1..3 : stages[k][2]

C10_StageState ==
    /\ Len(stages) <= 3
    /\ \A k \in 1..Len(stages) :
          /\ stages[k][1] = StageNames[k]
          /\ k > 1 => stages[k - 1][2]
    /\ pc = "pv_extract_audio" => (Len(stages) = 1 /\ stages[1][2])
    /\ (pc = "cb_begin" \/ bundle # NoFile \/ cb_result # None)
          => (Len(stages) >= 2 /\ stages[1][2] /\ stages[2][2])
    /\ pc = "done" => pv_result \in {RetTrue, RetFalse}
    /\ pv_result = RetTrue <=> (pc = "done" /\ AllStagesOk)
    /\ pv_result = RetFalse <=> (pc = "done" /\ ~AllStagesOk)

====
